---------------------------- MODULE Spec2Model ----------------------------
(***************************************************************************)
(* Model of the solanatoken program (programs/solanatoken/src/lib.rs):     *)
(* the price-gated secure transfer, the daily transaction limit and the    *)
(* time-weighted reward claim, with the holder record they share.          *)
(*                                                                         *)
(* Numbers.  TLC's integers are 32 bits wide, the program's amounts are    *)
(* u64 (and one u128).  Every u64/u128 quantity of the program is          *)
(* therefore an exact natural number held as a sequence of limbs in base   *)
(* 10^4, least significant limb first, without leading zero limbs          *)
(* (zero is <<>>).  Overflow is decided as the code decides it: the exact  *)
(* result is compared with u64::MAX.  Timestamps (i64) stay TLC integers:  *)
(* the model's clock stays far below 2^31.                                 *)
(***************************************************************************)
EXTENDS Integers, Sequences, FiniteSets, TLC

(***************************************************************************)
(* Exact natural-number arithmetic on limb sequences.                      *)
(***************************************************************************)
Base == 100 * 100

RECURSIVE Norm(_)
Norm(s) == IF s = <<>> THEN <<>>
           ELSE IF s[Len(s)] = 0 THEN Norm(SubSeq(s, 1, Len(s) - 1))
           ELSE s

RECURSIVE ToBig(_)
ToBig(n) == IF n = 0 THEN <<>> ELSE <<n % Base>> \o ToBig(n \div Base)

RECURSIVE Rev(_)
Rev(s) == IF s = <<>> THEN <<>> ELSE Rev(Tail(s)) \o <<Head(s)>>

\* A decimal constant written in groups of four digits, most significant
\* group first: Dec(<<1, 0, 0, 0>>) is 1_0000_0000_0000.
Dec(groups) == Norm(Rev(groups))

RECURSIVE AddC(_, _, _)
AddC(a, b, c) ==
    IF a = <<>> /\ b = <<>> THEN (IF c = 0 THEN <<>> ELSE <<c>>)
    ELSE LET x == IF a = <<>> THEN 0 ELSE Head(a)
             y == IF b = <<>> THEN 0 ELSE Head(b)
             s == x + y + c
         IN  <<s % Base>> \o AddC(IF a = <<>> THEN <<>> ELSE Tail(a),
                                  IF b = <<>> THEN <<>> ELSE Tail(b),
                                  s \div Base)

BigAdd(a, b) == AddC(a, b, 0)

\* a * d + c for a limb d (0 <= d < Base) and a carry c < Base
RECURSIVE MulLimb(_, _, _)
MulLimb(a, d, c) ==
    IF a = <<>> THEN (IF c = 0 THEN <<>> ELSE <<c>>)
    ELSE LET p == Head(a) * d + c
         IN  <<p % Base>> \o MulLimb(Tail(a), d, p \div Base)

RECURSIVE BigMul(_, _)
BigMul(a, b) ==
    IF a = <<>> \/ b = <<>> THEN <<>>
    ELSE BigAdd(Norm(MulLimb(a, Head(b), 0)),
                IF Tail(b) = <<>> THEN <<>> ELSE <<0>> \o BigMul(a, Tail(b)))

\* Quotient of a by a small divisor d (0 < d <= 200000, so that every
\* partial dividend r * Base + limb stays below 2^31): schoolbook short
\* division from the most significant limb; hi is the part of the
\* dividend not yet consumed, r the running remainder.
RECURSIVE DivLimbs(_, _, _)
DivLimbs(hi, d, r) ==
    IF hi = <<>> THEN <<>>
    ELSE LET cur == r * Base + hi[Len(hi)]
         IN  DivLimbs(SubSeq(hi, 1, Len(hi) - 1), d, cur % d) \o <<cur \div d>>

BigDivSmall(a, d) == Norm(DivLimbs(a, d, 0))

RECURSIVE LimbsLess(_, _, _)
LimbsLess(a, b, i) ==
    IF i = 0 THEN FALSE
    ELSE IF a[i] # b[i] THEN a[i] < b[i]
    ELSE LimbsLess(a, b, i - 1)

BigLess(a, b) ==
    IF Len(a) # Len(b) THEN Len(a) < Len(b) ELSE LimbsLess(a, b, Len(a))

BigLeq(a, b) == ~BigLess(b, a)

\* a - b for a >= b; w is the borrow
RECURSIVE SubB(_, _, _)
SubB(a, b, w) ==
    IF a = <<>> THEN <<>>
    ELSE LET y == IF b = <<>> THEN 0 ELSE Head(b)
             x == Head(a) - y - w
         IN  <<(x + Base) % Base>> \o SubB(Tail(a),
                                            IF b = <<>> THEN <<>> ELSE Tail(b),
                                            IF x < 0 THEN 1 ELSE 0)

BigSub(a, b) == Norm(SubB(a, b, 0))

\* Quotient of a by a divisor d > 0 not much smaller than a, by repeated
\* subtraction; the count is a TLC integer.
RECURSIVE CountSub(_, _)
CountSub(a, d) == IF BigLess(a, d) THEN 0 ELSE 1 + CountSub(BigSub(a, d), d)

BigDivLarge(a, d) == ToBig(CountSub(a, d))


(***************************************************************************)
(* token_config and the integer types' limits.                             *)
(***************************************************************************)
U64_MAX == Dec(<<1844, 6744, 737, 955, 1615>>)       \* 18_446_744_073_709_551_615

TOTAL_SUPPLY == Dec(<<1000, 0, 0, 0>>)               \* 1_000_000_000_000_000
REWARDS_RATE == 500
MIN_HOLDING_PERIOD == 2592000
MIN_PURCHASE_USD == 5000
MAX_TRANSACTION_SIZE == Dec(<<1, 0, 0, 0>>)          \* 1_000_000_000_000
MAX_DAILY_TRANSACTIONS == 10
SECONDS_PER_DAY == 86400

\* The same constants as the u64/u128 operands the code makes of them.
REWARDS_RATE_U64 == ToBig(REWARDS_RATE)
MIN_PURCHASE_USD_U128 == ToBig(MIN_PURCHASE_USD)
MAX_DAILY_TRANSACTIONS_U64 == ToBig(MAX_DAILY_TRANSACTIONS)
ONE == <<1>>

Some(v) == [some |-> TRUE, v |-> v]
None == [some |-> FALSE, v |-> <<>>]

\* u64::checked_mul, u64::checked_add: None when the exact result exceeds
\* u64::MAX.
checked_mul(a, b) ==
    LET p == BigMul(a, b) IN IF BigLeq(p, U64_MAX) THEN Some(p) ELSE None

checked_add(a, b) ==
    LET s == BigAdd(a, b) IN IF BigLeq(s, U64_MAX) THEN Some(s) ELSE None

\* u64::checked_div by a non-zero constant.  The divisor is given by its
\* factorisation into small factors; for naturals
\* (x div m) div n = x div (m * n), so the chain of short divisions is the
\* truncating division by the product.
RECURSIVE DivChain(_, _)
DivChain(a, factors) ==
    IF factors = <<>> THEN a
    ELSE DivChain(BigDivSmall(a, Head(factors)), Tail(factors))

checked_div(a, factors) == Some(DivChain(a, factors))

TEN_THOUSAND == <<10000>>               \* 10000
SECONDS_PER_YEAR == <<1000, 31536>>     \* 31_536_000 = 1000 * 31536
ONE_MILLION == <<1000, 1000>>           \* 1_000_000  = 1000 * 1000

Ok(v) == [err |-> "Ok", val |-> v]
Err(e) == [err |-> e, val |-> <<>>]

(***************************************************************************)
(* calculate_rewards: balance * 500 * holding_period / 10000 / 31_536_000, *)
(* every step checked, in the order of the code.                           *)
(***************************************************************************)
calculate_rewards_early_division(balance, holding_period) ==
    LET m1 == checked_mul(balance, REWARDS_RATE_U64) IN
    IF ~m1.some THEN Err("ArithmeticOverflow") ELSE
    LET d1 == checked_div(m1.v, TEN_THOUSAND)
        m2 == checked_mul(d1.v, holding_period) IN
    IF ~m2.some THEN Err("ArithmeticOverflow") ELSE
    Ok(checked_div(m2.v, SECONDS_PER_YEAR).v)

calculate_rewards_saturating(balance, holding_period) ==
    LET sat(x) == IF BigLeq(x, U64_MAX) THEN x ELSE U64_MAX
        m1 == sat(BigMul(balance, REWARDS_RATE_U64))
        m2 == sat(BigMul(m1, holding_period))
    IN  Ok(DivChain(DivChain(m2, TEN_THOUSAND), SECONDS_PER_YEAR))

calculate_rewards_round_up(balance, holding_period) ==
    LET m1 == checked_mul(balance, REWARDS_RATE_U64) IN
    IF ~m1.some THEN Err("ArithmeticOverflow") ELSE
    LET m2 == checked_mul(m1.v, holding_period) IN
    IF ~m2.some THEN Err("ArithmeticOverflow") ELSE
    LET d1 == checked_div(m2.v, TEN_THOUSAND)
        d2 == checked_div(d1.v, SECONDS_PER_YEAR) IN
    IF BigMul(d2.v, Dec(<<3153, 6000>>)) = d1.v
    THEN Ok(d2.v)
    ELSE Ok(BigAdd(d2.v, ONE))

calculate_rewards(balance, holding_period) ==
    LET m1 == checked_mul(balance, REWARDS_RATE_U64) IN
    IF ~m1.some THEN Err("ArithmeticOverflow") ELSE
    LET m2 == checked_mul(m1.v, holding_period) IN
    IF ~m2.some THEN Err("ArithmeticOverflow") ELSE
    LET d1 == checked_div(m2.v, TEN_THOUSAND) IN
    IF ~d1.some THEN Err("ArithmeticOverflow") ELSE
    LET d2 == checked_div(d1.v, SECONDS_PER_YEAR) IN
    IF ~d2.some THEN Err("ArithmeticOverflow") ELSE
    Ok(d2.v)

(***************************************************************************)
(* validate_transaction_limits: minimum USD value (in u128, which          *)
(* amount * price always fits), maximum size, daily limit; the first       *)
(* failing require! returns.                                               *)
(***************************************************************************)
usd_value(amount, price) == DivChain(BigMul(amount, price), ONE_MILLION)

validate_transaction_limits_daily_first(amount, price, daily_transactions, current_time, last_transaction_date) ==
    LET today == current_time \div SECONDS_PER_DAY IN
    IF last_transaction_date = today
       /\ ~BigLess(daily_transactions, MAX_DAILY_TRANSACTIONS_U64)
    THEN "DailyLimitExceeded"
    ELSE IF BigLess(usd_value(amount, price), MIN_PURCHASE_USD_U128)
    THEN "BelowMinimumUSD"
    ELSE IF ~BigLeq(amount, MAX_TRANSACTION_SIZE)
    THEN "ExceedsMaxSize"
    ELSE "Ok"

validate_transaction_limits_off_by_one(amount, price, daily_transactions, current_time, last_transaction_date) ==
    LET today == current_time \div SECONDS_PER_DAY IN
    IF BigLess(usd_value(amount, price), MIN_PURCHASE_USD_U128)
    THEN "BelowMinimumUSD"
    ELSE IF ~BigLeq(amount, MAX_TRANSACTION_SIZE)
    THEN "ExceedsMaxSize"
    ELSE IF last_transaction_date = today
            /\ ~BigLeq(daily_transactions, MAX_DAILY_TRANSACTIONS_U64)
    THEN "DailyLimitExceeded"
    ELSE "Ok"

validate_transaction_limits_no_daily_limit(amount, price, daily_transactions, current_time, last_transaction_date) ==
    IF BigLess(usd_value(amount, price), MIN_PURCHASE_USD_U128)
    THEN "BelowMinimumUSD"
    ELSE IF ~BigLeq(amount, MAX_TRANSACTION_SIZE)
    THEN "ExceedsMaxSize"
    ELSE "Ok"

validate_transaction_limits(amount, price, daily_transactions, current_time, last_transaction_date) ==
    LET today == current_time \div SECONDS_PER_DAY IN
    IF BigLess(usd_value(amount, price), MIN_PURCHASE_USD_U128)
    THEN "BelowMinimumUSD"
    ELSE IF ~BigLeq(amount, MAX_TRANSACTION_SIZE)
    THEN "ExceedsMaxSize"
    ELSE IF last_transaction_date = today
            /\ ~BigLess(daily_transactions, MAX_DAILY_TRANSACTIONS_U64)
    THEN "DailyLimitExceeded"
    ELSE "Ok"

(***************************************************************************)
(* The price feed account, as get_token_price reads it.                    *)
(*   loads   - load_price_feed_from_account_info succeeds                  *)
(*   current - get_current_price returns a price                           *)
(*   status  - the PriceStatus of that price                               *)
(*   price, conf (naturals), expo (integer)                                *)
(***************************************************************************)
Feed(loads, current, status, price, conf, expo) ==
    [loads |-> loads, current |-> current, status |-> status,
     price |-> price, conf |-> conf, expo |-> expo]

Abs(n) == IF n < 0 THEN -n ELSE n

\* conf as f64 / price as f64 > 0.01.  The conversions are exact below
\* 2^53 and the quotient is correctly rounded, so for price < 10^15 the
\* comparison is the exact one, 100 * conf > price: a true ratio above
\* 1/100 exceeds it by at least 1/(100 * price) > 10^-17, more than the
\* 2 * 10^-19 by which the double 0.01 exceeds 1/100, and a true ratio of
\* at most 1/100 rounds to at most the double 0.01.  x / 0 is +inf for
\* x > 0 and 0 / 0 is NaN, which compares false.  Every feed drawn below
\* keeps price < 10^15.
confidence_ratio_exceeds(conf, price) ==
    IF price = <<>> THEN conf # <<>>
    ELSE BigLess(price, BigMul(conf, ToBig(100)))

\* Powers of ten.  Pow10 is the exact value (a multiplier): n div 4 zero
\* limbs below the limb 10^(n mod 4).  TenPow is the exact value by its
\* factors (a divisor): n div 4 factors of 10^4 and one of 10^(n mod 4).
Pow10(n) == [i \in 1..(n \div 4) |-> 0] \o <<10 ^ (n % 4)>>

TenPow(n) == [i \in 1..(n \div 4) |-> 10000] \o <<10 ^ (n % 4)>>

TEN_POW_6 == Pow10(6)

TWO_POW_64 == BigAdd(U64_MAX, ONE)

\* x mod 2^64 for x < 10 * 2^64
RECURSIVE Wrap64(_)
Wrap64(x) == IF BigLess(x, TWO_POW_64) THEN x ELSE Wrap64(BigSub(x, TWO_POW_64))

\* 10^n mod 2^64: u64::pow with the multiplications wrapping.  Up to
\* n = 19 nothing wraps; from n = 64 on it is 0, 2^64 dividing 10^64;
\* between, each further factor of ten wraps.
RECURSIVE wrapping_pow10(_)
wrapping_pow10(n) ==
    IF n <= 19 THEN Pow10(n)
    ELSE IF n >= 64 THEN <<>>
    ELSE Wrap64(Norm(MulLimb(wrapping_pow10(n - 1), 10, 0)))

\* price.checked_mul(10u64.pow(6))?.checked_div(10u64.pow(expo.abs() as u32))?
\* (lines 115-119).  10u64.pow is not a checked operation: 10^n exceeds
\* u64::MAX from n = 20 on, and then the program panics when it is built
\* with overflow checks (the transaction fails with
\* ProgramFailedToComplete) and goes on with 10^n mod 2^64 when it is
\* built without them; overflow_checks says which build runs.  The power
\* is computed after the `?` of the multiplication.  checked_div is None
\* for a zero divisor only (10^n mod 2^64 = 0 from n = 64 on).
\* expo = i32::MIN, whose abs() overflows too, is not drawn.
normalize_price(price, expo, overflow_checks) ==
    LET n == Abs(expo)
        m == checked_mul(price, TEN_POW_6)
    IN  IF ~m.some THEN Err("ArithmeticOverflow")
        ELSE IF n <= 19
        THEN LET d == checked_div(m.v, TenPow(n)) IN
             IF ~d.some THEN Err("ArithmeticOverflow") ELSE Ok(d.v)
        ELSE IF overflow_checks THEN Err("ProgramFailedToComplete")
        ELSE LET divisor == wrapping_pow10(n) IN
             IF divisor = <<>> THEN Err("ArithmeticOverflow")
             ELSE Ok(BigDivLarge(m.v, divisor))

get_token_price_no_status_check(feed, overflow_checks) ==
    IF ~feed.loads THEN Err("InvalidPriceFeed")
    ELSE IF ~feed.current THEN Err("StalePrice")
    ELSE IF confidence_ratio_exceeds(feed.conf, feed.price)
    THEN Err("PriceConfidenceTooLow")
    ELSE normalize_price(feed.price, feed.expo, overflow_checks)

get_token_price_confidence_first(feed, overflow_checks) ==
    IF ~feed.loads THEN Err("InvalidPriceFeed")
    ELSE IF ~feed.current THEN Err("StalePrice")
    ELSE IF confidence_ratio_exceeds(feed.conf, feed.price)
    THEN Err("PriceConfidenceTooLow")
    ELSE IF feed.status # "Trading" THEN Err("InvalidPriceFeed")
    ELSE normalize_price(feed.price, feed.expo, overflow_checks)

get_token_price(feed, overflow_checks) ==
    IF ~feed.loads THEN Err("InvalidPriceFeed")
    ELSE IF ~feed.current THEN Err("StalePrice")
    ELSE IF feed.status # "Trading" THEN Err("InvalidPriceFeed")
    ELSE IF confidence_ratio_exceeds(feed.conf, feed.price)
    THEN Err("PriceConfidenceTooLow")
    ELSE normalize_price(feed.price, feed.expo, overflow_checks)

(***************************************************************************)
(* The feeds drawn for transfers, and get_token_price on each of them      *)
(* (evaluated once).  Their exponents are at most 8 in magnitude, where the *)
(* result is the same in either build.                                      *)
(***************************************************************************)
PRICE_150 == Dec(<<150, 0, 0>>)            \* 15_000_000_000 at expo -8: 150 USD
CONF_SMALL == Dec(<<1000, 0>>)             \* 10_000_000
CONF_1_PERCENT == Dec(<<1, 5000, 0>>)      \* 150_000_000: exactly 1% of PRICE_150
CONF_OVER == Dec(<<1, 5000, 1>>)           \* 150_000_001: just above 1%

FeedGood == Feed(TRUE, TRUE, "Trading", PRICE_150, CONF_SMALL, -8)
FeedAtThreshold == Feed(TRUE, TRUE, "Trading", PRICE_150, CONF_1_PERCENT, -8)
FeedLowConfidence == Feed(TRUE, TRUE, "Trading", PRICE_150, CONF_OVER, -8)
FeedHalted == Feed(TRUE, TRUE, "Halted", PRICE_150, CONF_SMALL, -8)
FeedHaltedLowConfidence == Feed(TRUE, TRUE, "Halted", PRICE_150, CONF_OVER, -8)
FeedUnknownLowConfidence == Feed(TRUE, TRUE, "Unknown", PRICE_150, PRICE_150, -8)
FeedStale == Feed(TRUE, FALSE, "Unknown", <<>>, <<>>, 0)
FeedUnparseable == Feed(FALSE, FALSE, "Unknown", <<>>, <<>>, 0)
FeedCheap == Feed(TRUE, TRUE, "Trading", <<50>>, <<>>, -6)     \* normalizes to 50
FeedDust == Feed(TRUE, TRUE, "Trading", <<50>>, <<>>, -8)      \* normalizes to 0

Feeds == {FeedGood, FeedAtThreshold, FeedLowConfidence, FeedHalted,
          FeedHaltedLowConfidence, FeedUnknownLowConfidence, FeedStale,
          FeedUnparseable, FeedCheap, FeedDust}

PriceOf == [f \in Feeds |-> get_token_price(f, TRUE)]

(***************************************************************************)
(* HolderData and RewardsVault.  exists is FALSE until the account is      *)
(* created by its init instruction; a created account starts zeroed.       *)
(***************************************************************************)
NoHolder ==
    [exists |-> FALSE, authority |-> "none", rewards_earned |-> <<>>,
     last_claim |-> 0, last_transfer |-> 0, daily_transactions |-> <<>>,
     last_transaction_date |-> 0]

NoVault ==
    [exists |-> FALSE, authority |-> "none", total_rewards |-> <<>>,
     last_update |-> 0]

(***************************************************************************)
(* Processor::process_transfer on the holder record `holder`.  The result  *)
(* holds the error ("Ok" on success), the steps that ran (the last one is  *)
(* the step that failed, if any), the price fetched and the record as the  *)
(* function leaves it: it is read at line 52 and written back at line 91   *)
(* only.  is_signer, feed, parses (try_from_slice succeeds) and            *)
(* transfer_ok (the token program's transfer succeeds) are the             *)
(* environment's.  Clock::get() gives the same current_time at lines 59    *)
(* and 77: the clock does not move within a transaction.                   *)
(***************************************************************************)
TransferResult(err, steps, price, holder) ==
    [err |-> err, steps |-> steps, price |-> price, holder |-> holder]

process_transfer_update_first(holder, is_signer, feed, parses, amount, transfer_ok, current_time) ==
    LET today == current_time \div SECONDS_PER_DAY
        h1 == IF holder.last_transaction_date # today
              THEN [holder EXCEPT !.daily_transactions = <<>>,
                                  !.last_transaction_date = today]
              ELSE holder
        inc == checked_add(h1.daily_transactions, ONE)
        h2 == IF inc.some
              THEN [h1 EXCEPT !.daily_transactions = inc.v,
                              !.last_transfer = current_time]
              ELSE holder
        price == PriceOf[feed]
    IN
    IF ~is_signer
    THEN TransferResult("MissingRequiredSignature", <<"signer">>, <<>>, holder)
    ELSE IF price.err # "Ok"
    THEN TransferResult(price.err, <<"signer", "price">>, <<>>, holder)
    ELSE IF ~parses
    THEN TransferResult("BorshIoError", <<"signer", "price", "load">>,
                        price.val, holder)
    ELSE IF ~inc.some
    THEN TransferResult("ArithmeticOverflow",
                        <<"signer", "price", "load", "update">>,
                        price.val, holder)
    ELSE LET v == validate_transaction_limits(amount, price.val,
                      h2.daily_transactions, current_time,
                      h2.last_transaction_date) IN
    IF v # "Ok"
    THEN TransferResult(v, <<"signer", "price", "load", "update", "validate">>,
                        price.val, h2)
    ELSE IF ~transfer_ok
    THEN TransferResult("TransferFailed",
             <<"signer", "price", "load", "update", "validate", "transfer">>,
             price.val, h2)
    ELSE TransferResult("Ok",
             <<"signer", "price", "load", "update", "validate", "transfer">>,
             price.val, h2)

process_transfer_no_reset(holder, is_signer, feed, parses, amount, transfer_ok, current_time) ==
    LET today == current_time \div SECONDS_PER_DAY
        price == PriceOf[feed]
        v == validate_transaction_limits(amount, price.val,
                 holder.daily_transactions, current_time,
                 holder.last_transaction_date)
        h1 == [holder EXCEPT !.last_transaction_date = today]
        inc == checked_add(h1.daily_transactions, ONE)
    IN
    IF ~is_signer
    THEN TransferResult("MissingRequiredSignature", <<"signer">>, <<>>, holder)
    ELSE IF price.err # "Ok"
    THEN TransferResult(price.err, <<"signer", "price">>, <<>>, holder)
    ELSE IF ~parses
    THEN TransferResult("BorshIoError", <<"signer", "price", "load">>,
                        price.val, holder)
    ELSE IF v # "Ok"
    THEN TransferResult(v, <<"signer", "price", "load", "validate">>,
                        price.val, holder)
    ELSE IF ~transfer_ok
    THEN TransferResult("TransferFailed",
             <<"signer", "price", "load", "validate", "transfer">>,
             price.val, holder)
    ELSE IF ~inc.some
    THEN TransferResult("ArithmeticOverflow",
             <<"signer", "price", "load", "validate", "transfer", "update">>,
             price.val, holder)
    ELSE TransferResult("Ok",
             <<"signer", "price", "load", "validate", "transfer", "update">>,
             price.val,
             [h1 EXCEPT !.daily_transactions = inc.v,
                        !.last_transfer = current_time])

process_transfer_transfer_first(holder, is_signer, feed, parses, amount, transfer_ok, current_time) ==
    LET today == current_time \div SECONDS_PER_DAY
        price == PriceOf[feed]
        v == validate_transaction_limits(amount, price.val,
                 holder.daily_transactions, current_time,
                 holder.last_transaction_date)
        h1 == IF holder.last_transaction_date # today
              THEN [holder EXCEPT !.daily_transactions = <<>>,
                                  !.last_transaction_date = today]
              ELSE holder
        inc == checked_add(h1.daily_transactions, ONE)
    IN
    IF ~is_signer
    THEN TransferResult("MissingRequiredSignature", <<"signer">>, <<>>, holder)
    ELSE IF price.err # "Ok"
    THEN TransferResult(price.err, <<"signer", "price">>, <<>>, holder)
    ELSE IF ~parses
    THEN TransferResult("BorshIoError", <<"signer", "price", "load">>,
                        price.val, holder)
    ELSE IF ~transfer_ok
    THEN TransferResult("TransferFailed",
             <<"signer", "price", "load", "transfer">>, price.val, holder)
    ELSE IF v # "Ok"
    THEN TransferResult(v, <<"signer", "price", "load", "transfer", "validate">>,
                        price.val, holder)
    ELSE IF ~inc.some
    THEN TransferResult("ArithmeticOverflow",
             <<"signer", "price", "load", "transfer", "validate", "update">>,
             price.val, holder)
    ELSE TransferResult("Ok",
             <<"signer", "price", "load", "transfer", "validate", "update">>,
             price.val,
             [h1 EXCEPT !.daily_transactions = inc.v,
                        !.last_transfer = current_time])

process_transfer_touches_last_claim(holder, is_signer, feed, parses, amount, transfer_ok, current_time) ==
    LET today == current_time \div SECONDS_PER_DAY
        price == PriceOf[feed]
        v == validate_transaction_limits(amount, price.val,
                 holder.daily_transactions, current_time,
                 holder.last_transaction_date)
        h1 == IF holder.last_transaction_date # today
              THEN [holder EXCEPT !.daily_transactions = <<>>,
                                  !.last_transaction_date = today]
              ELSE holder
        inc == checked_add(h1.daily_transactions, ONE)
    IN
    IF ~is_signer
    THEN TransferResult("MissingRequiredSignature", <<"signer">>, <<>>, holder)
    ELSE IF price.err # "Ok"
    THEN TransferResult(price.err, <<"signer", "price">>, <<>>, holder)
    ELSE IF ~parses
    THEN TransferResult("BorshIoError", <<"signer", "price", "load">>,
                        price.val, holder)
    ELSE IF v # "Ok"
    THEN TransferResult(v, <<"signer", "price", "load", "validate">>,
                        price.val, holder)
    ELSE IF ~transfer_ok
    THEN TransferResult("TransferFailed",
             <<"signer", "price", "load", "validate", "transfer">>,
             price.val, holder)
    ELSE IF ~inc.some
    THEN TransferResult("ArithmeticOverflow",
             <<"signer", "price", "load", "validate", "transfer", "update">>,
             price.val, holder)
    ELSE TransferResult("Ok",
             <<"signer", "price", "load", "validate", "transfer", "update">>,
             price.val,
             [h1 EXCEPT !.daily_transactions = inc.v,
                        !.last_transfer = current_time,
                        !.last_claim = current_time])

process_transfer_no_timestamp(holder, is_signer, feed, parses, amount, transfer_ok, current_time) ==
    IF ~is_signer
    THEN TransferResult("MissingRequiredSignature", <<"signer">>, <<>>, holder)
    ELSE LET price == PriceOf[feed] IN
    IF price.err # "Ok"
    THEN TransferResult(price.err, <<"signer", "price">>, <<>>, holder)
    ELSE IF ~parses
    THEN TransferResult("BorshIoError", <<"signer", "price", "load">>,
                        price.val, holder)
    ELSE LET v == validate_transaction_limits(amount, price.val,
                      holder.daily_transactions, current_time,
                      holder.last_transaction_date) IN
    IF v # "Ok"
    THEN TransferResult(v, <<"signer", "price", "load", "validate">>,
                        price.val, holder)
    ELSE IF ~transfer_ok
    THEN TransferResult("TransferFailed",
             <<"signer", "price", "load", "validate", "transfer">>,
             price.val, holder)
    ELSE LET today == current_time \div SECONDS_PER_DAY
             h1 == IF holder.last_transaction_date # today
                   THEN [holder EXCEPT !.daily_transactions = <<>>,
                                       !.last_transaction_date = today]
                   ELSE holder
             inc == checked_add(h1.daily_transactions, ONE) IN
    IF ~inc.some
    THEN TransferResult("ArithmeticOverflow",
             <<"signer", "price", "load", "validate", "transfer", "update">>,
             price.val, holder)
    ELSE TransferResult("Ok",
             <<"signer", "price", "load", "validate", "transfer", "update">>,
             price.val,
             [h1 EXCEPT !.daily_transactions = inc.v])

process_transfer(holder, is_signer, feed, parses, amount, transfer_ok, current_time) ==
    IF ~is_signer
    THEN TransferResult("MissingRequiredSignature", <<"signer">>, <<>>, holder)
    ELSE LET price == PriceOf[feed] IN
    IF price.err # "Ok"
    THEN TransferResult(price.err, <<"signer", "price">>, <<>>, holder)
    ELSE IF ~parses
    THEN TransferResult("BorshIoError", <<"signer", "price", "load">>,
                        price.val, holder)
    ELSE LET v == validate_transaction_limits(amount, price.val,
                      holder.daily_transactions, current_time,
                      holder.last_transaction_date) IN
    IF v # "Ok"
    THEN TransferResult(v, <<"signer", "price", "load", "validate">>,
                        price.val, holder)
    ELSE IF ~transfer_ok
    THEN TransferResult("TransferFailed",
             <<"signer", "price", "load", "validate", "transfer">>,
             price.val, holder)
    ELSE LET today == current_time \div SECONDS_PER_DAY
             h1 == IF holder.last_transaction_date # today
                   THEN [holder EXCEPT !.daily_transactions = <<>>,
                                       !.last_transaction_date = today]
                   ELSE holder
             inc == checked_add(h1.daily_transactions, ONE) IN
    IF ~inc.some
    THEN TransferResult("ArithmeticOverflow",
             <<"signer", "price", "load", "validate", "transfer", "update">>,
             price.val, holder)
    ELSE TransferResult("Ok",
             <<"signer", "price", "load", "validate", "transfer", "update">>,
             price.val,
             [h1 EXCEPT !.daily_transactions = inc.v,
                        !.last_transfer = current_time])

(***************************************************************************)
(* The body of claim_rewards on the in-memory holder_data.  The result     *)
(* holds the error, the steps that ran, the reward computed and the        *)
(* in-memory record when the handler returns.  mint_ok: the token          *)
(* program's mint_to succeeds.                                             *)
(***************************************************************************)
ClaimResult(err, steps, rewards, holder) ==
    [err |-> err, steps |-> steps, rewards |-> rewards, holder |-> holder]

claim_rewards_off_by_one(holder, balance, mint_ok, current_time) ==
    IF ~(current_time - holder.last_claim >= MIN_HOLDING_PERIOD - 1)
    THEN ClaimResult("MinHoldingPeriodNotMet", <<"period">>, <<>>, holder)
    ELSE LET r == calculate_rewards(balance, ToBig(current_time - holder.last_claim))
             sum == checked_add(holder.rewards_earned, r.val) IN
    IF r.err # "Ok" \/ ~sum.some
    THEN ClaimResult("ArithmeticOverflow", <<"period", "calculate">>, <<>>, holder)
    ELSE ClaimResult(IF mint_ok THEN "Ok" ELSE "MintFailed",
                     <<"period", "calculate", "update", "mint">>, r.val,
                     [holder EXCEPT !.rewards_earned = sum.v,
                                    !.last_claim = current_time])

claim_rewards_overwrite(holder, balance, mint_ok, current_time) ==
    IF ~(current_time - holder.last_claim >= MIN_HOLDING_PERIOD)
    THEN ClaimResult("MinHoldingPeriodNotMet", <<"period">>, <<>>, holder)
    ELSE LET r == calculate_rewards(balance, ToBig(current_time - holder.last_claim)) IN
    IF r.err # "Ok"
    THEN ClaimResult("ArithmeticOverflow", <<"period", "calculate">>, <<>>, holder)
    ELSE ClaimResult(IF mint_ok THEN "Ok" ELSE "MintFailed",
                     <<"period", "calculate", "update", "mint">>, r.val,
                     [holder EXCEPT !.rewards_earned = r.val,
                                    !.last_claim = current_time])

claim_rewards(holder, balance, mint_ok, current_time) ==
    IF ~(current_time - holder.last_claim >= MIN_HOLDING_PERIOD)
    THEN ClaimResult("MinHoldingPeriodNotMet", <<"period">>, <<>>, holder)
    ELSE LET holding_period == ToBig(current_time - holder.last_claim)
             rewards == calculate_rewards(balance, holding_period) IN
    IF rewards.err # "Ok"
    THEN ClaimResult(rewards.err, <<"period", "calculate">>, <<>>, holder)
    ELSE LET sum == checked_add(holder.rewards_earned, rewards.val) IN
    IF ~sum.some
    THEN ClaimResult("ArithmeticOverflow", <<"period", "calculate", "update">>,
                     rewards.val, holder)
    ELSE LET h1 == [holder EXCEPT !.rewards_earned = sum.v,
                                  !.last_claim = current_time] IN
    IF ~mint_ok
    THEN ClaimResult("MintFailed", <<"period", "calculate", "update", "mint">>,
                     rewards.val, h1)
    ELSE ClaimResult("Ok", <<"period", "calculate", "update", "mint">>,
                     rewards.val, h1)

(***************************************************************************)
(* Account validation of the instructions (the #[derive(Accounts)]         *)
(* structs): the Signer check, account initialisation, then the            *)
(* constraints.  "Ok" when the handler may run.                            *)
(***************************************************************************)
SecureTransferAccounts_no_authority_constraint(holder, inp) ==
    IF ~inp.signed THEN "AccountNotSigner"
    ELSE IF ~holder.exists THEN "AccountNotInitialized"
    ELSE IF inp.from_owner # inp.authority THEN "ConstraintRaw"
    ELSE "Ok"

SecureTransferAccounts(holder, inp) ==
    IF ~inp.signed THEN "AccountNotSigner"
    ELSE IF ~holder.exists THEN "AccountNotInitialized"
    ELSE IF inp.from_owner # inp.authority THEN "ConstraintRaw"
    ELSE IF holder.authority # inp.authority THEN "ConstraintRaw"
    ELSE "Ok"

ClaimRewardsAccounts(holder, inp) ==
    IF ~inp.signed THEN "AccountNotSigner"
    ELSE IF ~holder.exists THEN "AccountNotInitialized"
    ELSE IF holder.authority # inp.authority THEN "ConstraintRaw"
    ELSE IF inp.token_owner # inp.authority THEN "ConstraintRaw"
    ELSE IF ~inp.mint_authority_ok THEN "ConstraintRaw"
    ELSE "Ok"

InitializeRewardsAccounts(holder, inp) ==
    IF ~inp.signed THEN "AccountNotSigner"
    ELSE IF holder.exists THEN "AccountAlreadyInUse"
    ELSE "Ok"

InitializeTokenAccounts(v, inp) ==
    IF ~inp.signed THEN "AccountNotSigner"
    ELSE IF v.exists THEN "AccountAlreadyInUse"
    ELSE "Ok"


(***************************************************************************)
(* The instructions as functions of the account they work on, their        *)
(* inputs and the clock: account validation, then the handler.  The        *)
(* holder of the result is the account as the instruction leaves it.       *)
(* process_transfer writes the account itself; claim_rewards works on the  *)
(* in-memory record, which is written to the account only when the         *)
(* handler returns Ok.                                                     *)
(***************************************************************************)
secure_transfer_result(holder, inp, current_time) ==
    LET acc == SecureTransferAccounts(holder, inp) IN
    IF acc # "Ok" THEN TransferResult(acc, <<>>, <<>>, holder)
    ELSE process_transfer(holder, inp.signed, inp.feed, inp.parses,
                          inp.amount, inp.transfer_ok, current_time)

claim_rewards_result_keeps_failed_update(holder, inp, current_time) ==
    LET acc == ClaimRewardsAccounts(holder, inp) IN
    IF acc # "Ok" THEN ClaimResult(acc, <<>>, <<>>, holder)
    ELSE claim_rewards(holder, inp.balance, inp.mint_ok, current_time)

claim_rewards_result(holder, inp, current_time) ==
    LET acc == ClaimRewardsAccounts(holder, inp) IN
    IF acc # "Ok" THEN ClaimResult(acc, <<>>, <<>>, holder)
    ELSE LET r == claim_rewards(holder, inp.balance, inp.mint_ok, current_time)
         IN  IF r.err = "Ok" THEN r ELSE [r EXCEPT !.holder = holder]

initialize_rewards_result(holder, inp, current_time) ==
    LET acc == InitializeRewardsAccounts(holder, inp) IN
    IF acc # "Ok" THEN [err |-> acc, holder |-> holder]
    ELSE [err |-> "Ok",
          holder |-> [holder EXCEPT !.exists = TRUE,
                                    !.authority = inp.authority,
                                    !.rewards_earned = <<>>,
                                    !.last_claim = current_time,
                                    !.last_transfer = 0]]

initialize_token_result(v, inp, current_time) ==
    LET acc == InitializeTokenAccounts(v, inp) IN
    IF acc # "Ok" THEN [err |-> acc, vault |-> v]
    ELSE IF ~inp.mint_ok THEN [err |-> "MintFailed", vault |-> v]
    ELSE [err |-> "Ok",
          vault |-> [v EXCEPT !.exists = TRUE, !.authority = inp.authority,
                              !.total_rewards = <<>>,
                              !.last_update = current_time]]

(***************************************************************************)
(* Bounds and the inputs drawn.                                            *)
(***************************************************************************)
MaxTicks == 2

\* Clock advances: the holding period less a second, and the holding
\* period.  From 0 they give the last second of day 29 and the first of
\* day 30; instructions submitted without an advance between them run at
\* the same second.
TickSizes == {MIN_HOLDING_PERIOD - 1, MIN_HOLDING_PERIOD}

HolderAccounts == {"h1"}

AMOUNT_1M == Dec(<<100, 0>>)                         \* 1_000_000
AMOUNT_OVER_MAX == Dec(<<1, 0, 0, 1>>)               \* MAX_TRANSACTION_SIZE + 1

TransferBase ==
    [authority |-> "alice", signed |-> TRUE, from_owner |-> "alice",
     feed |-> FeedGood, amount |-> AMOUNT_1M, parses |-> TRUE,
     transfer_ok |-> TRUE]

TransferInputs ==
    {TransferBase,
     [TransferBase EXCEPT !.amount = MAX_TRANSACTION_SIZE],
     [TransferBase EXCEPT !.amount = AMOUNT_OVER_MAX],
     [TransferBase EXCEPT !.feed = FeedAtThreshold],
     [TransferBase EXCEPT !.feed = FeedLowConfidence],
     [TransferBase EXCEPT !.feed = FeedHalted],
     [TransferBase EXCEPT !.feed = FeedHaltedLowConfidence],
     [TransferBase EXCEPT !.feed = FeedUnknownLowConfidence],
     [TransferBase EXCEPT !.feed = FeedStale],
     [TransferBase EXCEPT !.feed = FeedUnparseable],
     [TransferBase EXCEPT !.feed = FeedCheap],
     [TransferBase EXCEPT !.feed = FeedDust, !.amount = AMOUNT_OVER_MAX],
     [TransferBase EXCEPT !.transfer_ok = FALSE],
     [TransferBase EXCEPT !.parses = FALSE],
     [TransferBase EXCEPT !.signed = FALSE],
     [TransferBase EXCEPT !.authority = "mallory", !.from_owner = "mallory"],
     [TransferBase EXCEPT !.from_owner = "mallory"]}

Balances == {AMOUNT_1M, TOTAL_SUPPLY}

ClaimBase ==
    [authority |-> "alice", signed |-> TRUE, token_owner |-> "alice",
     mint_authority_ok |-> TRUE, balance |-> AMOUNT_1M, mint_ok |-> TRUE]

ClaimInputs ==
    {[ClaimBase EXCEPT !.balance = b, !.mint_ok = m] : b \in Balances, m \in BOOLEAN}
    \cup {[ClaimBase EXCEPT !.signed = FALSE],
          [ClaimBase EXCEPT !.authority = "mallory", !.token_owner = "mallory"],
          [ClaimBase EXCEPT !.token_owner = "mallory"],
          [ClaimBase EXCEPT !.mint_authority_ok = FALSE]}

InitRewardsInputs ==
    {[authority |-> "alice", signed |-> TRUE],
     [authority |-> "alice", signed |-> FALSE]}

InitTokenInputs ==
    {[authority |-> "alice", signed |-> TRUE, mint_ok |-> TRUE],
     [authority |-> "alice", signed |-> TRUE, mint_ok |-> FALSE],
     [authority |-> "alice", signed |-> FALSE, mint_ok |-> TRUE]}

(***************************************************************************)
(* State.                                                                  *)
(*   now     - Clock::get()?.unix_timestamp                                *)
(*   ticks   - clock advances so far (bounds the model)                    *)
(*   holders - the HolderData accounts                                     *)
(*   vault   - the RewardsVault account                                    *)
(*   last    - the last instruction that succeeded: its account, what it   *)
(*             computed and the account's record before it.  An            *)
(*             instruction that fails changes no account and leaves no     *)
(*             trace: what it returns is the *_result operator at the      *)
(*             state it is submitted in.                                   *)
(*   ghost   - history, per holder account, kept by the actions and not    *)
(*             read by the program: the day and number of the transfers    *)
(*             that succeeded on the day of the latest one, the times of   *)
(*             initialisation and of every successful claim, and the sum   *)
(*             of the rewards those claims minted                          *)
(*   probe   - argument and result of one call of a pure function          *)
(*             (SpecCalc, SpecLimits, SpecOracle)                          *)
(***************************************************************************)
VARIABLES now, ticks, holders, vault, last, ghost, probe

vars == <<now, ticks, holders, vault, last, ghost, probe>>

Instruction(op, acct, out, before) ==
    [op |-> op, acct |-> acct, out |-> out, before |-> before]

NoProbe == [fn |-> "none", args |-> <<>>, done |-> FALSE, result |-> <<>>]

InitProgram ==
    /\ now = 0
    /\ ticks = 0
    /\ holders = [a \in HolderAccounts |-> NoHolder]
    /\ vault = NoVault
    /\ last = Instruction("none", "none", <<>>, <<>>)
    /\ ghost = [a \in HolderAccounts |->
                  [day |-> 0, n |-> 0, grants |-> <<>>, issued |-> <<>>]]

Init == InitProgram /\ probe = NoProbe

Tick ==
    /\ ticks < MaxTicks
    /\ \E d \in TickSizes : now' = now + d
    /\ ticks' = ticks + 1
    /\ last' = Instruction("tick", "none", <<>>, <<>>)
    /\ UNCHANGED <<holders, vault, ghost, probe>>

initialize_token ==
    \E inp \in InitTokenInputs :
        LET r == initialize_token_result(vault, inp, now) IN
        /\ vault' = r.vault
        /\ last' = IF r.err = "Ok"
                   THEN Instruction("initialize_token", "vault", <<>>, vault)
                   ELSE last
        /\ UNCHANGED <<now, ticks, holders, ghost, probe>>

initialize_rewards ==
    \E a \in DOMAIN holders, inp \in InitRewardsInputs :
        LET r == initialize_rewards_result(holders[a], inp, now) IN
        /\ holders' = [holders EXCEPT ![a] = r.holder]
        /\ ghost' = IF r.err = "Ok"
                    THEN [ghost EXCEPT ![a].grants = <<now>>]
                    ELSE ghost
        /\ last' = IF r.err = "Ok"
                   THEN Instruction("initialize_rewards", a, <<>>, holders[a])
                   ELSE last
        /\ UNCHANGED <<now, ticks, vault, probe>>

secure_transfer ==
    \E a \in DOMAIN holders, inp \in TransferInputs :
        LET r == secure_transfer_result(holders[a], inp, now)
            today == now \div SECONDS_PER_DAY
        IN  /\ holders' = [holders EXCEPT ![a] = r.holder]
            /\ ghost' = IF r.err # "Ok" THEN ghost
                        ELSE [ghost EXCEPT ![a].day = today,
                                ![a].n = IF ghost[a].day = today
                                         THEN ghost[a].n + 1 ELSE 1]
            /\ last' = IF r.err = "Ok"
                       THEN Instruction("secure_transfer", a, r.price, holders[a])
                       ELSE last
            /\ UNCHANGED <<now, ticks, vault, probe>>

ClaimRewards ==
    \E a \in DOMAIN holders, inp \in ClaimInputs :
        LET r == claim_rewards_result(holders[a], inp, now) IN
        /\ holders' = [holders EXCEPT ![a] = r.holder]
        /\ ghost' = IF r.err = "Ok"
                    THEN [ghost EXCEPT ![a].grants = Append(@, now),
                                       ![a].issued = BigAdd(@, r.rewards)]
                    ELSE ghost
        /\ last' = IF r.err = "Ok"
                   THEN Instruction("claim_rewards", a, r.rewards, holders[a])
                   ELSE last
        /\ UNCHANGED <<now, ticks, vault, probe>>

Next ==
    \/ Tick
    \/ initialize_token
    \/ initialize_rewards
    \/ secure_transfer
    \/ ClaimRewards

Spec == Init /\ [][Next]_vars

(***************************************************************************)
(* The pure functions on their own: the arguments are drawn by Init, the   *)
(* one action calls the function and keeps what it returns.                *)
(***************************************************************************)
Probe(fn, args) == [fn |-> fn, args |-> args, done |-> FALSE, result |-> <<>>]

CalcBalances ==
    {<<>>, ONE, <<19>>, <<20>>, <<259>>, AMOUNT_1M,
     Dec(<<142, 3359, 8822>>),              \* largest b with b*500*2_592_000 in u64
     Dec(<<142, 3359, 8823>>),
     TOTAL_SUPPLY,
     Dec(<<3, 6893, 4881, 4741, 9103>>),    \* largest b with b*500 in u64
     Dec(<<3, 6893, 4881, 4741, 9104>>),
     U64_MAX}

CalcPeriods ==
    {<<>>, ONE, Dec(<<259, 2000>>), Dec(<<3153, 5999>>), Dec(<<3153, 6000>>),
     Dec(<<6307, 2000>>), U64_MAX}

InitCalc ==
    /\ InitProgram
    /\ probe \in {Probe("calculate_rewards", <<b, p>>) :
                    b \in CalcBalances, p \in CalcPeriods}

CallCalculateRewards ==
    /\ probe.fn = "calculate_rewards"
    /\ ~probe.done
    /\ probe' = [probe EXCEPT !.done = TRUE,
                   !.result = calculate_rewards(probe.args[1], probe.args[2])]
    /\ UNCHANGED <<now, ticks, holders, vault, last, ghost>>

NextCalc == CallCalculateRewards

SpecCalc == InitCalc /\ [][NextCalc]_vars

\* calculate_rewards on one holding span and on its two parts, as
\* claim_rewards calls it when a holder claims once at the end of the span
\* or also in between, and on a second balance.
I64_MAX == Dec(<<922, 3372, 368, 5477, 5807>>)      \* 9_223_372_036_854_775_807

SplitBalances ==
    {<<>>, ONE, <<259>>, AMOUNT_1M,
     Dec(<<142, 3359, 8822>>),              \* largest b with b*500*2_592_000 in u64
     TOTAL_SUPPLY}

SplitPeriods ==
    {<<>>, ONE, Dec(<<259, 1999>>), Dec(<<259, 2000>>), Dec(<<3153, 6000>>),
     I64_MAX}

InitSplit ==
    /\ InitProgram
    /\ probe \in {Probe("calculate_rewards_split", <<b, b2, p1, p2>>) :
                    b \in SplitBalances, b2 \in SplitBalances,
                    p1 \in SplitPeriods, p2 \in SplitPeriods}

CallCalculateRewardsSplit ==
    /\ probe.fn = "calculate_rewards_split"
    /\ ~probe.done
    /\ LET balance == probe.args[1]
           balance2 == probe.args[2]
           p1 == probe.args[3]
           p2 == probe.args[4]
       IN  probe' = [probe EXCEPT !.done = TRUE,
                       !.result =
                           [first |-> calculate_rewards(balance, p1),
                            second |-> calculate_rewards(balance, p2),
                            whole |-> calculate_rewards(balance, BigAdd(p1, p2)),
                            other |-> calculate_rewards(balance2, p1)]]
    /\ UNCHANGED <<now, ticks, holders, vault, last, ghost>>

NextSplit == CallCalculateRewardsSplit

SpecSplit == InitSplit /\ [][NextSplit]_vars

LimitAmounts ==
    {<<>>, ONE, AMOUNT_1M, MAX_TRANSACTION_SIZE, AMOUNT_OVER_MAX, U64_MAX}

LimitPrices == {<<>>, <<50>>, <<4999>>, <<5000>>, Dec(<<150, 0>>), U64_MAX}

LimitCounts == {<<>>, <<9>>, <<10>>, <<11>>}

\* <<current_time, last_transaction_date>>
LimitClocks == {<<0, 0>>, <<86399, 0>>, <<86400, 0>>, <<86400, 1>>}

InitLimits ==
    /\ InitProgram
    /\ probe \in {Probe("validate_transaction_limits", <<a, p, n, c[1], c[2]>>) :
                    a \in LimitAmounts, p \in LimitPrices, n \in LimitCounts,
                    c \in LimitClocks}

CallValidateTransactionLimits ==
    /\ probe.fn = "validate_transaction_limits"
    /\ ~probe.done
    /\ probe' = [probe EXCEPT !.done = TRUE,
                   !.result = validate_transaction_limits(probe.args[1],
                                  probe.args[2], probe.args[3], probe.args[4],
                                  probe.args[5])]
    /\ UNCHANGED <<now, ticks, holders, vault, last, ghost>>

NextLimits == CallValidateTransactionLimits

SpecLimits == InitLimits /\ [][NextLimits]_vars

PRICE_1E13 == Dec(<<10, 0, 0, 0>>)      \* 10^13: price * 10^6 = 10^19 fits
PRICE_2E13 == Dec(<<20, 0, 0, 0>>)      \* 2 * 10^13: price * 10^6 overflows

OracleFeeds ==
    {Feed(TRUE, TRUE, s, p, c, e) :
        s \in {"Trading", "Halted", "Auction", "Unknown"},
        p \in {<<>>, <<50>>, PRICE_150, PRICE_1E13, PRICE_2E13},
        c \in {<<>>, CONF_1_PERCENT, CONF_OVER},
        e \in {-8, -6, 0, 19, -20, -21, 64}}
    \cup {FeedStale, FeedUnparseable}

InitOracle ==
    /\ InitProgram
    /\ probe \in {Probe("get_token_price", <<f, c>>) :
                    f \in OracleFeeds, c \in BOOLEAN}

CallGetTokenPrice ==
    /\ probe.fn = "get_token_price"
    /\ ~probe.done
    /\ probe' = [probe EXCEPT !.done = TRUE,
                   !.result = get_token_price(probe.args[1], probe.args[2])]
    /\ UNCHANGED <<now, ticks, holders, vault, last, ghost>>

NextOracle == CallGetTokenPrice

SpecOracle == InitOracle /\ [][NextOracle]_vars

(***************************************************************************)
(* Properties.                                                             *)
(***************************************************************************)
Today == now \div SECONDS_PER_DAY

Steps(r) == {r.steps[i] : i \in 1..Len(r.steps)}

\* confidence / price > 0.01, over the naturals (a zero price with a
\* positive confidence counts as above).
RatioAboveOnePercent(feed) == BigLess(feed.price, BigMul(feed.conf, <<100>>))

\* amount * price / 1_000_000 >= MIN_PURCHASE_USD, without dividing.
MeetsMinimumUSD(amount, price) ==
    BigLeq(Dec(<<50, 0, 0>>), BigMul(amount, price))

\* C1: a secure transfer that fails, at whatever stage (account
\* validation, the signer check, the oracle, the record that does not
\* parse, the limits, the ledger transfer, the counter overflow), leaves
\* every field of the holder record as it was before the call.
C1_FailedTransferLeavesRecord ==
    \A a \in HolderAccounts, inp \in TransferInputs :
        LET r == secure_transfer_result(holders[a], inp, now)
            u == process_transfer(holders[a], FALSE, inp.feed, inp.parses,
                                  inp.amount, inp.transfer_ok, now)
        IN  /\ r.err # "Ok" => r.holder = holders[a]
            /\ u.err = "MissingRequiredSignature" /\ u.holder = holders[a]

\* A holder that has transferred today, and a transfer that passes the
\* oracle and the limits and then fails in the ledger, the record kept.
C1_Witness ==
    \E a \in HolderAccounts, inp \in TransferInputs :
        LET r == secure_transfer_result(holders[a], inp, now) IN
        /\ last.op = "secure_transfer"
        /\ holders[a].daily_transactions = <<3>>
        /\ r.err = "TransferFailed"
        /\ "transfer" \in Steps(r)
        /\ r.holder = holders[a]

\* C2: no holder completes more than MAX_DAILY_TRANSACTIONS transfers in
\* one day, and once that many have succeeded today every further transfer
\* of the day that reaches the validator with an amount passing the
\* minimum-USD and maximum-size checks fails with DailyLimitExceeded.
C2_DailyLimit ==
    \A a \in HolderAccounts :
        /\ ghost[a].n <= MAX_DAILY_TRANSACTIONS
        /\ (ghost[a].n = MAX_DAILY_TRANSACTIONS /\ ghost[a].day = Today) =>
               \A inp \in TransferInputs :
                   LET r == secure_transfer_result(holders[a], inp, now) IN
                   /\ r.err # "Ok"
                   /\ ("validate" \in Steps(r)
                       /\ MeetsMinimumUSD(inp.amount, r.price)
                       /\ BigLeq(inp.amount, MAX_TRANSACTION_SIZE))
                      => r.err = "DailyLimitExceeded"

\* Ten transfers done on a day after day 0, and the eleventh refused.
C2_Witness ==
    \E a \in HolderAccounts, inp \in TransferInputs :
        /\ ghost[a].n = MAX_DAILY_TRANSACTIONS
        /\ ghost[a].day = Today
        /\ Today > 0
        /\ secure_transfer_result(holders[a], inp, now).err = "DailyLimitExceeded"

\* C3: a transfer that succeeds on a day other than the record's
\* last_transaction_date leaves daily_transactions = 1 and
\* last_transaction_date = that day, whatever the count was before.
C3_DailyReset ==
    /\ \A a \in HolderAccounts, inp \in TransferInputs :
           LET r == secure_transfer_result(holders[a], inp, now) IN
           (r.err = "Ok" /\ holders[a].last_transaction_date # Today) =>
               /\ r.holder.daily_transactions = ONE
               /\ r.holder.last_transaction_date = Today
    /\ (last.op = "secure_transfer"
        /\ last.before.last_transaction_date # Today) =>
           /\ holders[last.acct].daily_transactions = ONE
           /\ holders[last.acct].last_transaction_date = Today

\* A record with the full count of an earlier day, and the transfer of a
\* later day done on it.
C3_Witness ==
    /\ last.op = "secure_transfer"
    /\ last.before.daily_transactions = MAX_DAILY_TRANSACTIONS_U64
    /\ last.before.last_transaction_date # Today
    /\ holders[last.acct].daily_transactions = ONE
    /\ holders[last.acct].last_transaction_date = Today

\* C4: validate_transaction_limits reports the first failing check in the
\* order minimum USD value, maximum size, daily limit: BelowMinimumUSD
\* whenever the value is below the minimum, else ExceedsMaxSize whenever
\* the amount is above the maximum, and DailyLimitExceeded only when both
\* pass (and then exactly when the count of today has reached the limit).
C4_FirstFailingCheck ==
    (probe.fn = "validate_transaction_limits" /\ probe.done) =>
        LET amount == probe.args[1]
            below == ~MeetsMinimumUSD(amount, probe.args[2])
            over == BigLess(MAX_TRANSACTION_SIZE, amount)
            full == /\ probe.args[5] = probe.args[4] \div SECONDS_PER_DAY
                    /\ BigLeq(MAX_DAILY_TRANSACTIONS_U64, probe.args[3])
        IN  probe.result = IF below THEN "BelowMinimumUSD"
                           ELSE IF over THEN "ExceedsMaxSize"
                           ELSE IF full THEN "DailyLimitExceeded"
                           ELSE "Ok"

\* An input that fails all three checks, rejected for the first.
C4_Witness ==
    /\ probe.fn = "validate_transaction_limits"
    /\ probe.done
    /\ probe.args = <<AMOUNT_OVER_MAX, <<>>, <<10>>, 86400, 1>>
    /\ probe.result = "BelowMinimumUSD"

\* C5 as stated: a parseable quote with a current price whose
\* confidence/price ratio exceeds 0.01 fails with PriceConfidenceTooLow
\* whatever its status.
C5_ConfidenceGateAnyStatus ==
    (probe.fn = "get_token_price" /\ probe.done) =>
        LET feed == probe.args[1] IN
        (feed.loads /\ feed.current /\ RatioAboveOnePercent(feed)) =>
            probe.result.err = "PriceConfidenceTooLow"

\* C5, amended: such a quote fails with PriceConfidenceTooLow when its
\* status is Trading, and with InvalidPriceFeed when it is not: the status
\* is checked before the confidence.
C5_ConfidenceGateWhenTrading ==
    (probe.fn = "get_token_price" /\ probe.done) =>
        LET feed == probe.args[1] IN
        (feed.loads /\ feed.current /\ RatioAboveOnePercent(feed)) =>
            probe.result.err = IF feed.status = "Trading"
                               THEN "PriceConfidenceTooLow"
                               ELSE "InvalidPriceFeed"

\* A halted quote above the threshold, rejected for its status.
C5_Witness ==
    /\ probe.fn = "get_token_price"
    /\ probe.done
    /\ probe.args[1].status = "Halted"
    /\ probe.args[1].price = PRICE_150
    /\ RatioAboveOnePercent(probe.args[1])
    /\ probe.result.err = "InvalidPriceFeed"

\* C6: a transfer on a quote whose status is not Trading or whose
\* confidence/price ratio is above 0.01 fails before the validator runs:
\* no limit check, no ledger transfer, no change of the holder record.
C6_UnusableQuoteStopsTransfer ==
    \A a \in HolderAccounts, inp \in TransferInputs :
        LET r == secure_transfer_result(holders[a], inp, now) IN
        (inp.feed.status # "Trading" \/ RatioAboveOnePercent(inp.feed)) =>
            /\ r.err # "Ok"
            /\ Steps(r) \subseteq {"signer", "price"}
            /\ r.holder = holders[a]

\* An initialised holder whose transfers on a good quote go through, and
\* a halted quote and a Trading one above the threshold both stopped at
\* the price step.
C6_Witness ==
    \E a \in HolderAccounts, i1 \in TransferInputs, i2 \in TransferInputs :
        LET r1 == secure_transfer_result(holders[a], i1, now)
            r2 == secure_transfer_result(holders[a], i2, now)
        IN  /\ last.op = "secure_transfer"
            /\ i1.feed = FeedHalted
            /\ r1.err = "InvalidPriceFeed" /\ r1.steps = <<"signer", "price">>
            /\ i2.feed = FeedLowConfidence
            /\ r2.err = "PriceConfidenceTooLow" /\ r2.steps = <<"signer", "price">>

\* C7: a claim made less than MIN_HOLDING_PERIOD after last_claim fails
\* with MinHoldingPeriodNotMet and changes nothing; so the first
\* successful claim of a holder comes at least MIN_HOLDING_PERIOD after
\* its initialisation and each later one at least MIN_HOLDING_PERIOD after
\* the one before.
C7_HoldingPeriod ==
    \A a \in HolderAccounts :
        /\ \A inp \in ClaimInputs :
               LET r == claim_rewards_result(holders[a], inp, now) IN
               (ClaimRewardsAccounts(holders[a], inp) = "Ok"
                /\ now - holders[a].last_claim < MIN_HOLDING_PERIOD) =>
                   /\ r.err = "MinHoldingPeriodNotMet"
                   /\ r.holder = holders[a]
        /\ \A i \in 1..(Len(ghost[a].grants) - 1) :
               ghost[a].grants[i + 1] - ghost[a].grants[i] >= MIN_HOLDING_PERIOD

\* A claim granted exactly MIN_HOLDING_PERIOD after initialisation, and
\* the next one refused one second short of the period.
C7_Witness ==
    \E a \in HolderAccounts, inp \in ClaimInputs :
        /\ Len(ghost[a].grants) = 2
        /\ ghost[a].grants[2] - ghost[a].grants[1] = MIN_HOLDING_PERIOD
        /\ now - holders[a].last_claim = MIN_HOLDING_PERIOD - 1
        /\ ClaimRewardsAccounts(holders[a], inp) = "Ok"
        /\ claim_rewards_result(holders[a], inp, now).err = "MinHoldingPeriodNotMet"

\* C8 as stated: a claim made exactly MIN_HOLDING_PERIOD after last_claim
\* succeeds for every balance up to TOTAL_SUPPLY, when the mint succeeds
\* and rewards_earned plus the reward fits in 64 bits; rewards_earned then
\* grows by the reward and last_claim becomes the time of the claim.
C8_ClaimAtMinimumPeriodSucceeds ==
    \A a \in HolderAccounts, inp \in ClaimInputs :
        LET r == claim_rewards_result(holders[a], inp, now)
            reward == DivChain(BigMul(BigMul(inp.balance, REWARDS_RATE_U64),
                                      ToBig(MIN_HOLDING_PERIOD)),
                               TEN_THOUSAND \o SECONDS_PER_YEAR)
            sum == BigAdd(holders[a].rewards_earned, reward)
        IN  (/\ ClaimRewardsAccounts(holders[a], inp) = "Ok"
             /\ now - holders[a].last_claim = MIN_HOLDING_PERIOD
             /\ inp.mint_ok
             /\ BigLeq(inp.balance, TOTAL_SUPPLY)
             /\ BigLeq(sum, U64_MAX)) =>
                /\ r.err = "Ok"
                /\ r.holder.rewards_earned = sum
                /\ r.holder.last_claim = now

\* C9: when neither product overflows, calculate_rewards returns
\* floor(floor(balance * 500 * period / 10000) / 31_536_000), the
\* multiplications done before any division: the reward r is the one
\* number with r * 315_360_000_000 <= balance * 500 * period <
\* (r + 1) * 315_360_000_000.  Over one year it is
\* floor(balance * 500 / 10000), 50_000 for a balance of 1_000_000.
C9_RewardFormulaExact ==
    (probe.fn = "calculate_rewards" /\ probe.done) =>
        LET balance == probe.args[1]
            period == probe.args[2]
            rated == BigMul(balance, <<500>>)
            product == BigMul(rated, period)
            r == probe.result
            divisor == Dec(<<3153, 6000, 0>>)
        IN  (BigLeq(rated, U64_MAX) /\ BigLeq(product, U64_MAX)) =>
                /\ r.err = "Ok"
                /\ BigLeq(BigMul(r.val, divisor), product)
                /\ BigLess(product, BigMul(BigAdd(r.val, ONE), divisor))
                /\ period = Dec(<<3153, 6000>>) =>
                       /\ BigLeq(BigMul(r.val, <<10000>>), rated)
                       /\ BigLess(rated, BigMul(BigAdd(r.val, ONE), <<10000>>))
                /\ (balance = AMOUNT_1M /\ period = Dec(<<3153, 6000>>)) =>
                       r.val = Dec(<<5, 0>>)

\* One year on a balance of 1_000_000.
C9_Witness ==
    /\ probe.fn = "calculate_rewards"
    /\ probe.done
    /\ probe.args = <<AMOUNT_1M, Dec(<<3153, 6000>>)>>
    /\ probe.result = Ok(Dec(<<5, 0>>))

\* C10: when balance * 500 or balance * 500 * period does not fit in 64
\* bits, calculate_rewards fails with ArithmeticOverflow and returns no
\* reward.
C10_OverflowFails ==
    (probe.fn = "calculate_rewards" /\ probe.done) =>
        LET rated == BigMul(probe.args[1], <<500>>)
            product == BigMul(rated, probe.args[2])
        IN  (BigLess(U64_MAX, rated) \/ BigLess(U64_MAX, product)) =>
                probe.result = Err("ArithmeticOverflow")

\* balance = period = u64::MAX.
C10_Witness ==
    /\ probe.fn = "calculate_rewards"
    /\ probe.done
    /\ probe.args = <<U64_MAX, U64_MAX>>
    /\ probe.result.err = "ArithmeticOverflow"

\* C11: rewards_earned never decreases, whatever instruction is submitted
\* and whether it succeeds or fails: it is 0 at initialisation, every
\* successful claim adds exactly the reward it minted, without wrapping,
\* and nothing else changes it.
C11_RewardsEarnedMonotone ==
    \A a \in DOMAIN holders :
        /\ holders[a].rewards_earned = ghost[a].issued
        /\ BigLeq(holders[a].rewards_earned, U64_MAX)
        /\ \A inp \in ClaimInputs :
               LET r == claim_rewards_result(holders[a], inp, now) IN
               /\ BigLeq(holders[a].rewards_earned, r.holder.rewards_earned)
               /\ r.err = "Ok" =>
                      r.holder.rewards_earned =
                          BigAdd(holders[a].rewards_earned, r.rewards)
        /\ \A inp \in TransferInputs :
               secure_transfer_result(holders[a], inp, now).holder.rewards_earned
                   = holders[a].rewards_earned
        /\ \A inp \in InitRewardsInputs :
               BigLeq(holders[a].rewards_earned,
                      initialize_rewards_result(holders[a], inp, now).holder.rewards_earned)
        /\ (last.op = "claim_rewards" /\ last.acct = a) =>
               holders[a].rewards_earned = BigAdd(last.before.rewards_earned, last.out)

\* The second successful claim of a holder: a positive reward added to a
\* positive total.
C11_Witness ==
    /\ last.op = "claim_rewards"
    /\ last.before.rewards_earned # <<>>
    /\ last.out # <<>>
    /\ Len(ghost[last.acct].grants) = 3
    /\ holders[last.acct].rewards_earned = BigAdd(last.before.rewards_earned, last.out)

\* The rewards minted by the successful claims of the accounts in S.
RECURSIVE TotalIssued(_)
TotalIssued(S) ==
    IF S = {} THEN <<>>
    ELSE LET a == CHOOSE x \in S : TRUE
         IN  BigAdd(ghost[a].issued, TotalIssued(S \ {a}))

\* C12 as stated: the vault's total_rewards is the sum of the rewards
\* issued by the successful claims.  Two consequences are stated, which
\* do not depend on whether claims made before the vault was created
\* count: the total never exceeds what was issued, and a claim made with
\* the vault in place is counted in it.
C12_VaultTracksIssuance ==
    vault.exists =>
        /\ BigLeq(vault.total_rewards, TotalIssued(DOMAIN holders))
        /\ last.op = "claim_rewards" => BigLeq(last.out, vault.total_rewards)

StepOrder == <<"signer", "price", "load", "validate", "transfer", "update">>

\* C13: the steps of a secure transfer run in the order signer check,
\* price fetch, (record load,) limit validation, ledger transfer, holder
\* update, each only after the ones before it succeeded: the ledger
\* transfer is invoked only with a signer, a usable price and limits that
\* pass on the counters as they were before the instruction; a limit
\* rejection is the validator's verdict on those counters; and the record
\* changes only when the ledger transfer succeeded.
C13_StepOrder ==
    \A a \in DOMAIN holders, inp \in TransferInputs :
        LET r == secure_transfer_result(holders[a], inp, now)
            price == PriceOf[inp.feed]
            verdict == validate_transaction_limits(inp.amount, price.val,
                           holders[a].daily_transactions, now,
                           holders[a].last_transaction_date)
        IN  /\ r.steps = SubSeq(StepOrder, 1, Len(r.steps))
            /\ "transfer" \in Steps(r) =>
                   inp.signed /\ price.err = "Ok" /\ verdict = "Ok"
            /\ ("validate" \in Steps(r) /\ "transfer" \notin Steps(r)) =>
                   verdict # "Ok" /\ r.err = verdict
            /\ r.holder # holders[a] =>
                   /\ r.err = "Ok" /\ inp.transfer_ok
                   /\ r.steps = StepOrder

\* After a transfer that reset a count above one, a transfer whose ledger
\* step fails: it stops at the fifth step with the record not written.
C13_Witness ==
    \E inp \in TransferInputs :
        /\ last.op = "secure_transfer"
        /\ BigLess(ONE, last.before.daily_transactions)
        /\ last.before.last_transaction_date # Today
        /\ LET r == secure_transfer_result(holders[last.acct], inp, now) IN
           /\ r.err = "TransferFailed"
           /\ r.steps = SubSeq(StepOrder, 1, 5)
           /\ r.holder = holders[last.acct]

\* C14: a secure transfer or a claim whose authority has not signed, or
\* is not the authority of the holder record, fails before the handler
\* runs and leaves the record unchanged.
C14_OnlyTheAuthorityMutates ==
    \A a \in DOMAIN holders :
        /\ \A inp \in TransferInputs :
               LET r == secure_transfer_result(holders[a], inp, now) IN
               (~inp.signed \/ inp.authority # holders[a].authority) =>
                   r.err # "Ok" /\ r.steps = <<>> /\ r.holder = holders[a]
        /\ \A inp \in ClaimInputs :
               LET r == claim_rewards_result(holders[a], inp, now) IN
               (~inp.signed \/ inp.authority # holders[a].authority) =>
                   r.err # "Ok" /\ r.steps = <<>> /\ r.holder = holders[a]

\* A record with rewards and transfers of its authority's, a transfer
\* signed by another principal and an unsigned claim, both refused, at a
\* time when the authority's own claim would be granted.
C14_Witness ==
    \E a \in DOMAIN holders, i1 \in TransferInputs, i2 \in ClaimInputs :
        /\ holders[a].authority = "alice"
        /\ holders[a].rewards_earned # <<>>
        /\ holders[a].daily_transactions # <<>>
        /\ now - holders[a].last_claim >= MIN_HOLDING_PERIOD
        /\ i1.signed /\ i1.authority = "mallory" /\ i1.from_owner = "mallory"
        /\ secure_transfer_result(holders[a], i1, now).err = "ConstraintRaw"
        /\ ~i2.signed
        /\ claim_rewards_result(holders[a], i2, now).err = "AccountNotSigner"

\* C15: a claim that fails, at whatever stage, leaves rewards_earned and
\* last_claim (the whole record) as they were, and mints nothing: the
\* mint is reached only after the period check, the calculation and the
\* addition succeeded.  A claim succeeds only with the mint done, and
\* then the record holds the reward and the time of the claim.
C15_FailedClaimLeavesRecord ==
    \A a \in DOMAIN holders, inp \in ClaimInputs :
        LET r == claim_rewards_result(holders[a], inp, now) IN
        /\ r.err # "Ok" =>
               /\ r.holder = holders[a]
               /\ "mint" \in Steps(r) => (r.err = "MintFailed" /\ ~inp.mint_ok)
        /\ r.err = "Ok" =>
               /\ inp.mint_ok /\ "mint" \in Steps(r)
               /\ r.holder.last_claim = now
               /\ r.holder.rewards_earned =
                      BigAdd(holders[a].rewards_earned, r.rewards)

\* A holder past its holding period with rewards earned: one claim fails
\* in the mint, another in the calculation, the record kept by both.
C15_Witness ==
    \E a \in DOMAIN holders, i1 \in ClaimInputs, i2 \in ClaimInputs :
        LET r1 == claim_rewards_result(holders[a], i1, now)
            r2 == claim_rewards_result(holders[a], i2, now)
        IN  /\ holders[a].rewards_earned # <<>>
            /\ r1.err = "MintFailed" /\ r1.rewards # <<>>
            /\ r1.holder = holders[a]
            /\ r2.err = "ArithmeticOverflow" /\ r2.steps = <<"period", "calculate">>
            /\ r2.holder = holders[a]

(***************************************************************************)
(* Two holder records side by side, from a state the program is in after   *)
(* one clock advance: the vault created and both records initialised at    *)
(* time 0, the clock advanced by the holding period, then h1 (and h2, or   *)
(* not) having claimed the reward of a balance of 1_000_000.               *)
(***************************************************************************)
FrameAccounts == {"h1", "h2"}

\* The vault as initialize_token leaves it at time 0, a record as
\* initialize_rewards leaves it at time 0, and the result of the claim made
\* on that record at time MIN_HOLDING_PERIOD with a balance of 1_000_000
\* (reward 1_000_000 * 500 * 2_592_000 / 10000 / 31_536_000 = 4109).
VaultAtZero ==
    [exists |-> TRUE, authority |-> "alice", total_rewards |-> <<>>,
     last_update |-> 0]

HolderAtZero ==
    [exists |-> TRUE, authority |-> "alice", rewards_earned |-> <<>>,
     last_claim |-> 0, last_transfer |-> 0, daily_transactions |-> <<>>,
     last_transaction_date |-> 0]

ClaimAtPeriod ==
    [rewards |-> <<4109>>,
     holder |-> [HolderAtZero EXCEPT !.rewards_earned = <<4109>>,
                                     !.last_claim = MIN_HOLDING_PERIOD]]

InitFrame ==
    /\ now = MIN_HOLDING_PERIOD
    /\ ticks = 1
    /\ \E claimed \in SUBSET FrameAccounts :
           /\ "h1" \in claimed
           /\ holders = [a \in FrameAccounts |->
                           IF a \in claimed THEN ClaimAtPeriod.holder
                           ELSE HolderAtZero]
           /\ ghost = [a \in FrameAccounts |->
                         IF a \in claimed
                         THEN [day |-> 0, n |-> 0,
                               grants |-> <<0, MIN_HOLDING_PERIOD>>,
                               issued |-> ClaimAtPeriod.rewards]
                         ELSE [day |-> 0, n |-> 0, grants |-> <<0>>,
                               issued |-> <<>>]]
    /\ vault = VaultAtZero
    /\ last = Instruction("claim_rewards", "h1", ClaimAtPeriod.rewards, HolderAtZero)
    /\ probe = NoProbe

NextFrame ==
    \/ initialize_token
    \/ initialize_rewards
    \/ secure_transfer
    \/ ClaimRewards

SpecFrame == InitFrame /\ [][NextFrame]_vars

\* C16: a successful secure transfer changes, in the record it is made
\* on, daily_transactions, last_transaction_date and last_transfer (which
\* becomes the time of the transfer) and nothing else -- authority,
\* rewards_earned and last_claim stay -- and it changes neither the vault
\* nor any other holder record.
C16_TransferFrame ==
    [][(last'.op = "secure_transfer" /\ holders' # holders) =>
          /\ vault' = vault
          /\ \E a \in DOMAIN holders :
                 /\ last'.acct = a
                 /\ \A b \in DOMAIN holders \ {a} : holders'[b] = holders[b]
                 /\ holders'[a].last_transfer = now
                 /\ holders'[a] =
                        [holders[a] EXCEPT
                            !.daily_transactions = holders'[a].daily_transactions,
                            !.last_transaction_date = holders'[a].last_transaction_date,
                            !.last_transfer = holders'[a].last_transfer]]_vars

\* A transfer done on h1, which has rewards earned, beside h2 with
\* rewards and transfers of its own, the vault in place.
C16_Witness ==
    /\ DOMAIN holders = FrameAccounts
    /\ last.op = "secure_transfer"
    /\ last.acct = "h1"
    /\ holders["h1"].rewards_earned # <<>>
    /\ holders["h2"].rewards_earned # <<>>
    /\ holders["h2"].daily_transactions = <<2>>
    /\ vault.exists

\* C17 as stated: for an accepted quote get_token_price returns exactly
\* floor(price * 10^6 / 10^|expo|) or fails with ArithmeticOverflow, and
\* it fails with ArithmeticOverflow whenever price * 10^6 or 10^|expo|
\* does not fit in 64 bits (|expo| >= 20).
C17_NormalizationExactOrOverflow ==
    (probe.fn = "get_token_price" /\ probe.done) =>
        LET feed == probe.args[1]
            n == Abs(feed.expo)
            scaled == BigMul(feed.price, Pow10(6))
            exact == DivChain(scaled, TenPow(n))
            fits == BigLeq(scaled, U64_MAX) /\ n <= 19
        IN  (feed.loads /\ feed.current /\ feed.status = "Trading"
             /\ ~RatioAboveOnePercent(feed)) =>
                /\ probe.result = Ok(exact) \/ probe.result = Err("ArithmeticOverflow")
                /\ ~fits => probe.result = Err("ArithmeticOverflow")

\* C18: in every reachable state each holder record's daily_transactions
\* is at most MAX_DAILY_TRANSACTIONS (and, a u64, at least 0), and no
\* transfer reaches the failing branch of the counter's checked_add.
C18_CountWithinDailyMaximum ==
    \A a \in DOMAIN holders :
        /\ BigLeq(<<>>, holders[a].daily_transactions)
        /\ BigLeq(holders[a].daily_transactions, MAX_DAILY_TRANSACTIONS_U64)
        /\ \A inp \in TransferInputs :
               LET r == secure_transfer_result(holders[a], inp, now) IN
               ~("update" \in Steps(r) /\ r.err # "Ok")

\* The tenth transfer of a day has just been counted: the count goes from
\* MAX_DAILY_TRANSACTIONS - 1 to MAX_DAILY_TRANSACTIONS on the same day.
C18_Witness ==
    /\ last.op = "secure_transfer"
    /\ last.before.daily_transactions = <<MAX_DAILY_TRANSACTIONS - 1>>
    /\ holders[last.acct].daily_transactions = MAX_DAILY_TRANSACTIONS_U64
    /\ last.before.last_transaction_date = holders[last.acct].last_transaction_date

\* C19: in every reachable state of a holder record last_transaction_date
\* is last_transfer / 86400 (integer division), daily_transactions >= 1
\* exactly when a transfer has succeeded for the holder, and the count is
\* then the number of transfers done on the day of the latest one.
C19_CountRefersToLastTransferDay ==
    \A a \in DOMAIN holders :
        holders[a].exists =>
            /\ holders[a].last_transaction_date
                   = holders[a].last_transfer \div SECONDS_PER_DAY
            /\ BigLeq(ONE, holders[a].daily_transactions) <=> ghost[a].n >= 1
            /\ ghost[a].n >= 1 =>
                   /\ holders[a].last_transaction_date = ghost[a].day
                   /\ holders[a].daily_transactions = ToBig(ghost[a].n)

\* A transfer has been done in the middle of a day after day 0, on a
\* record that had transfers counted on an earlier day.
C19_Witness ==
    /\ last.op = "secure_transfer"
    /\ holders[last.acct].last_transfer % SECONDS_PER_DAY # 0
    /\ holders[last.acct].last_transaction_date > 0
    /\ last.before.daily_transactions # <<>>
    /\ last.before.last_transaction_date
           < holders[last.acct].last_transaction_date

\* C20: when calculate_rewards(b, p1 + p2) succeeds, so do
\* calculate_rewards(b, p1) and calculate_rewards(b, p2), and their sum is
\* at most the reward of the whole span; and calculate_rewards is
\* non-decreasing in the period and in the balance: where it succeeds on
\* the larger argument it succeeds on the smaller one with no larger a
\* reward.
C20_SplittingNeverGains ==
    (probe.fn = "calculate_rewards_split" /\ probe.done) =>
        LET balance == probe.args[1]
            balance2 == probe.args[2]
            r == probe.result
        IN  /\ r.whole.err = "Ok" =>
                   /\ r.first.err = "Ok"
                   /\ r.second.err = "Ok"
                   /\ BigLeq(BigAdd(r.first.val, r.second.val), r.whole.val)
                   /\ BigLeq(r.first.val, r.whole.val)
                   /\ BigLeq(r.second.val, r.whole.val)
            /\ (BigLeq(balance, balance2) /\ r.other.err = "Ok") =>
                   /\ r.first.err = "Ok"
                   /\ BigLeq(r.first.val, r.other.val)

\* A balance of 259 over two spans of 30 days: each part earns 1 and the
\* whole earns 2, every one of the three rounded down from a fraction; and
\* the larger balance of 1_000_000 earns more over the first part.
C20_Witness ==
    /\ probe.fn = "calculate_rewards_split"
    /\ probe.done
    /\ probe.args = <<(<<259>>), AMOUNT_1M, Dec(<<259, 2000>>), Dec(<<259, 2000>>)>>
    /\ probe.result.first = Ok(ONE)
    /\ probe.result.second = Ok(ONE)
    /\ probe.result.whole = Ok(<<2>>)
    /\ probe.result.other = Ok(<<4109>>)

=============================================================================
